---- MODULE Spec2Model ----
(***************************************************************************)
(* Share lifecycle controller of longhorn-share-manager (pkg/rpc/server.go) *)
(* as a state machine: the RPC handlers Mount, Unmount, FilesystemResize    *)
(* and FilesystemTrim, each split at its adapter calls, run by concurrent   *)
(* callers that serialise on the controller's RWMutex.                      *)
(***************************************************************************)
EXTENDS Integers, Sequences, FiniteSets, TLC

\* ---------------------------------------------------------------- bounds
NumProcs == 2          \* concurrent RPC callers
NumDevs == 2           \* distinct device numbers the OS may report

\* ------------------------------------------------------ program constants
unmountRetryCount == 30

Procs == 1..NumProcs
Devs == 1..NumDevs
Ops == {"Mount", "Unmount", "FilesystemResize", "FilesystemTrim"}

\* gRPC status codes the handlers return
OK == "OK"
Internal == "Internal"
FailedPrecondition == "FailedPrecondition"
InvalidArgument == "InvalidArgument"

\* classes of error text: the only text the code inspects is "target is busy"
ErrKinds == {"busy", "other"}

VARIABLES
    volName,        \* Volume.Name: "" while unbound
    isEncrypted,    \* Volume.IsEncrypted()
    shareExported,  \* ShareManager's exported flag
    mounted,        \* OS: the mount path is a mount point
    exportEntry,    \* export configuration: the volume's entry exists
    writers,        \* RWMutex: the processes holding the write lock
    readers,        \* RWMutex: the processes holding a read lock
    pc,             \* each caller's position
    op,             \* each caller's current operation
    loc,            \* each caller's locals and the observations of its call
    prev,           \* summary of the most recently completed call
    prev2,          \* summary of the call completed before prev
    didMount,       \* some call of this instance had MountVolume succeed
    didExport,      \* some call of this instance had CreateExport+ReloadExport succeed
    srv,            \* ShareManagerHealthCheckServer.srv is not nil
    health          \* the health server's latest response

vars == <<volName, isEncrypted, shareExported, mounted, exportEntry, writers,
          readers, pc, op, loc, prev, prev2, didMount, didExport, srv, health>>

volumeVars == <<volName, isEncrypted>>
osVars == <<mounted, exportEntry>>
lockVars == <<writers, readers>>
ghostVars == <<didMount, didExport>>
hist == <<prev, prev2>>
healthVars == <<srv, health>>

\* the health server has not answered yet
NoResponse == [rpc |-> "none", status |-> "none", err |-> FALSE]

NoCall == [op |-> "none", code |-> "none", nfsUp |-> FALSE, clean |-> TRUE]

\* locals of a call that has not started
InitLoc ==
    [calls |-> {},            \* adapter / descriptor accesses made by this call
     failed |-> {},           \* those that returned an error
     err |-> "nil",           \* the handler's err variable (class of its text)
     errAt |-> 0,             \* the unmount attempt that produced err
     i |-> 0,                 \* Unmount's loop counter
     attempts |-> 0,          \* calls of s.unmount made
     firstNonBusy |-> 0,      \* first attempt whose result was not "busy"
     isMountPoint |-> FALSE,
     mntDev |-> 0,            \* mnt.DeviceNumber
     devNum |-> 0,            \* deviceNumber
     diskFormat |-> "",       \* diskFormat
     code |-> "none",         \* status code returned
     retErrAt |-> 0,          \* attempt whose error the returned status carries
     entry |-> <<>>]          \* <<shareExported, mounted, exportEntry>> at Lock

InitController ==
    /\ volName \in {"", "vol"}
    /\ isEncrypted \in BOOLEAN
    /\ shareExported = FALSE
    /\ mounted \in BOOLEAN
    /\ exportEntry \in BOOLEAN
    /\ writers = {}
    /\ readers = {}
    /\ pc = [p \in Procs |-> "idle"]
    /\ op = [p \in Procs |-> "none"]
    /\ loc = [p \in Procs |-> InitLoc]
    /\ prev = NoCall
    /\ prev2 = NoCall
    /\ didMount = FALSE
    /\ didExport = FALSE

\* the health server is built over the controller
Init ==
    /\ InitController
    /\ srv = TRUE
    /\ health = NoResponse

\* NewShareManagerHealthCheckServer(srv), srv nil or not
HealthInit ==
    /\ InitController
    /\ srv \in BOOLEAN
    /\ health = NoResponse

\* ------------------------------------------------------------- helpers
Goto(p, l) == pc' = [pc EXCEPT ![p] = l]

\* record that adapter a was called, and whether it returned an error
Called(l, a, ok) ==
    [l EXCEPT !.calls = @ \cup {a},
              !.failed = IF ok THEN @ ELSE @ \cup {a}]

\* return from the handler with status c (the deferred Unlock runs in Return)
Ret(l, c) == [l EXCEPT !.code = c]

\* what is remembered of a completed call
Summary(o, l) ==
    [op |-> o, code |-> l.code,
     nfsUp |-> "FindProcessByName" \in l.calls \ l.failed,
     clean |-> l.failed \ {"FindProcessByName"} = {}]

\* ------------------------------------------------------- adapter effects
\* exporter.DeleteExport / CreateExport, UnmountVolume / MountVolume on the
\* state they manage; a failing adapter leaves it as it was.
DeleteExport(e, ok) == IF ok THEN FALSE ELSE e
CreateExport(e, ok) == IF ok THEN TRUE ELSE e
UnmountVolume(m, ok) == IF ok THEN FALSE ELSE m
MountVolume(m, ok) == IF ok THEN TRUE ELSE m

\* --------------------------------------------------------------- locking
\* faulty variant: the "read-only" trim takes the read lock (s.RLock())
LockModeTrimShared(o) == IF o = "FilesystemTrim" THEN "R" ELSE "W"

\* every handler takes the write lock: s.Lock()
LockMode(o) == "W"

CanLock(p, o) ==
    IF LockMode(o) = "W" THEN writers = {} /\ readers = {}
    ELSE writers = {}

\* an RPC arrives: the runtime starts a handler for it
Call(p) ==
    /\ pc[p] = "idle"
    /\ \E o \in Ops : op' = [op EXCEPT ![p] = o]
    /\ Goto(p, "Lock")
    /\ UNCHANGED <<healthVars, volumeVars, shareExported, osVars, lockVars, loc, hist, ghostVars>>

Lock(p) ==
    /\ pc[p] = "Lock"
    /\ CanLock(p, op[p])
    /\ IF LockMode(op[p]) = "W"
         THEN writers' = writers \cup {p} /\ UNCHANGED readers
         ELSE readers' = readers \cup {p} /\ UNCHANGED writers
    /\ loc' = [loc EXCEPT ![p].entry = <<shareExported, mounted, exportEntry>>]
    /\ Goto(p, "GetVolume")
    /\ UNCHANGED <<healthVars, volumeVars, shareExported, osVars, op, hist, ghostVars>>

\* faulty variant: Unmount lacks the empty-name check
NameMissingNotInUnmount(o) == o # "Unmount" /\ volName = ""

\* vol := s.manager.GetVolume(); if vol.Name == "" { return success }
NameMissing(o) == volName = ""

FirstStep(o) ==
    CASE o = "Mount" -> "M_nfs"
      [] o = "Unmount" -> "U_nfs"
      [] o = "FilesystemResize" -> "R_valid"
      [] o = "FilesystemTrim" -> "T_valid"

GetVolume(p) ==
    /\ pc[p] = "GetVolume"
    /\ IF NameMissing(op[p])
         THEN /\ loc' = [loc EXCEPT ![p] = Ret(@, OK)]
              /\ Goto(p, "ret")
         ELSE /\ Goto(p, FirstStep(op[p]))
              /\ UNCHANGED loc
    /\ UNCHANGED <<healthVars, volumeVars, shareExported, osVars, lockVars, op, hist, ghostVars>>

\* faulty variant: an error return leaves without unlocking
UnlockOnSuccessOnly(p) ==
    /\ pc[p] = "ret"
    /\ writers' = IF loc[p].code = OK THEN writers \ {p} ELSE writers
    /\ readers' = readers \ {p}
    /\ loc' = [loc EXCEPT ![p] = InitLoc]
    /\ op' = [op EXCEPT ![p] = "none"]
    /\ Goto(p, "idle")
    /\ UNCHANGED <<healthVars, volumeVars, shareExported, osVars, ghostVars>>

\* the handler returns: deferred s.Unlock(), the call is complete
Unlock(p) ==
    /\ pc[p] = "ret"
    /\ writers' = writers \ {p}
    /\ readers' = readers \ {p}
    /\ loc' = [loc EXCEPT ![p] = InitLoc]
    /\ op' = [op EXCEPT ![p] = "none"]
    /\ Goto(p, "idle")
    /\ UNCHANGED <<healthVars, volumeVars, shareExported, osVars, ghostVars>>

Return(p) == Unlock(p) /\ UNCHANGED hist

\* the same return, observed by a log of the last two completed calls
ReturnLogged(p) ==
    /\ Unlock(p)
    /\ prev' = Summary(op[p], loc[p])
    /\ prev2' = prev

\* ----------------------------------------------------------------- Mount
\* nfsServerIsRunning(): FindProcessByName("ganesha.nfsd") returned no error
M_nfs(p) ==
    /\ pc[p] = "M_nfs"
    /\ \E running \in BOOLEAN :
         IF running
           THEN /\ loc' = [loc EXCEPT ![p] = Called(@, "FindProcessByName", TRUE)]
                /\ Goto(p, "M_exported")
           ELSE /\ loc' = [loc EXCEPT ![p] = Ret(Called(@, "FindProcessByName", FALSE), OK)]
                /\ Goto(p, "ret")
    /\ UNCHANGED <<healthVars, volumeVars, shareExported, osVars, lockVars, op, hist, ghostVars>>

\* faulty variant: the already-exported fast path is missing
AlreadyExportedNever == FALSE

\* if s.manager.ShareIsExported() { return success }
AlreadyExported == shareExported

M_exported(p) ==
    /\ pc[p] = "M_exported"
    /\ IF AlreadyExported
         THEN /\ loc' = [loc EXCEPT ![p] = Ret(Called(@, "ShareIsExported", TRUE), OK)]
              /\ Goto(p, "ret")
         ELSE /\ loc' = [loc EXCEPT ![p] = Called(@, "ShareIsExported", TRUE)]
              /\ Goto(p, "M_isMP")
    /\ UNCHANGED <<healthVars, volumeVars, shareExported, osVars, lockVars, op, hist, ghostVars>>

\* faulty variant: a failed query is reported as invalid-argument
M_isMPInvalidArgument(p) ==
    /\ pc[p] = "M_isMP"
    /\ \E ok \in BOOLEAN :
         IF ~ok
           THEN /\ loc' = [loc EXCEPT ![p] =
                      Ret([Called(@, "IsMountPoint", FALSE) EXCEPT !.err = "other"],
                          InvalidArgument)]
                /\ Goto(p, "ret")
           ELSE /\ loc' = [loc EXCEPT ![p] =
                      [Called(@, "IsMountPoint", TRUE) EXCEPT !.isMountPoint = mounted]]
                /\ Goto(p, IF mounted THEN "M_newExp" ELSE "M_mount")
    /\ UNCHANGED <<healthVars, volumeVars, shareExported, osVars, lockVars, op, hist, ghostVars>>

\* isMountPoint, err := mounter.IsMountPoint(mountPath)
M_isMP(p) ==
    /\ pc[p] = "M_isMP"
    /\ \E ok \in BOOLEAN :
         IF ~ok
           THEN /\ loc' = [loc EXCEPT ![p] =
                      Ret([Called(@, "IsMountPoint", FALSE) EXCEPT !.err = "other"], Internal)]
                /\ Goto(p, "ret")
           ELSE /\ loc' = [loc EXCEPT ![p] =
                      [Called(@, "IsMountPoint", TRUE) EXCEPT !.isMountPoint = mounted]]
                /\ Goto(p, IF mounted THEN "M_newExp" ELSE "M_mount")
    /\ UNCHANGED <<healthVars, volumeVars, shareExported, osVars, lockVars, op, hist, ghostVars>>

\* s.mount(vol, devicePath, mountPath): s.manager.MountVolume
M_mount(p) ==
    /\ pc[p] = "M_mount"
    /\ \E ok \in BOOLEAN :
         /\ mounted' = MountVolume(mounted, ok)
         /\ didMount' = (didMount \/ ok)
         /\ IF ok
              THEN /\ loc' = [loc EXCEPT ![p] = Called(@, "MountVolume", TRUE)]
                   /\ Goto(p, "M_newExp")
              ELSE /\ loc' = [loc EXCEPT ![p] =
                         Ret([Called(@, "MountVolume", FALSE) EXCEPT !.err = "other"], Internal)]
                   /\ Goto(p, "ret")
    /\ UNCHANGED <<healthVars, volumeVars, shareExported, exportEntry, lockVars, op, hist, didExport>>

\* s.export(vol): nfs.NewExporter
M_newExp(p) ==
    /\ pc[p] = "M_newExp"
    /\ \E ok \in BOOLEAN :
         IF ok
           THEN /\ loc' = [loc EXCEPT ![p] = Called(@, "NewExporter", TRUE)]
                /\ Goto(p, "M_create")
           ELSE /\ loc' = [loc EXCEPT ![p] =
                      Ret([Called(@, "NewExporter", FALSE) EXCEPT !.err = "other"], Internal)]
                /\ Goto(p, "ret")
    /\ UNCHANGED <<healthVars, volumeVars, shareExported, osVars, lockVars, op, hist, ghostVars>>

\* faulty variant: the error of CreateExport is dropped
M_createErrorDropped(p) ==
    /\ pc[p] = "M_create"
    /\ \E ok \in BOOLEAN :
         /\ exportEntry' = CreateExport(exportEntry, ok)
         /\ loc' = [loc EXCEPT ![p] = Called(@, "CreateExport", ok)]
         /\ Goto(p, "M_reload")
    /\ UNCHANGED <<healthVars, volumeVars, shareExported, mounted, lockVars, op, hist, ghostVars>>

\* s.export(vol): exporter.CreateExport(vol.Name)
M_create(p) ==
    /\ pc[p] = "M_create"
    /\ \E ok \in BOOLEAN :
         /\ exportEntry' = CreateExport(exportEntry, ok)
         /\ IF ok
              THEN /\ loc' = [loc EXCEPT ![p] = Called(@, "CreateExport", TRUE)]
                   /\ Goto(p, "M_reload")
              ELSE /\ loc' = [loc EXCEPT ![p] =
                         Ret([Called(@, "CreateExport", FALSE) EXCEPT !.err = "other"], Internal)]
                   /\ Goto(p, "ret")
    /\ UNCHANGED <<healthVars, volumeVars, shareExported, mounted, lockVars, op, hist, ghostVars>>

\* faulty variant: the error of ReloadExport is dropped
M_reloadErrorDropped(p) ==
    /\ pc[p] = "M_reload"
    /\ \E ok \in BOOLEAN :
         /\ didExport' = (didExport \/ ok)
         /\ loc' = [loc EXCEPT ![p] = Called(@, "ReloadExport", ok)]
         /\ Goto(p, "M_set")
    /\ UNCHANGED <<healthVars, volumeVars, shareExported, osVars, lockVars, op, hist, didMount>>

\* s.export(vol): exporter.ReloadExport()
M_reload(p) ==
    /\ pc[p] = "M_reload"
    /\ \E ok \in BOOLEAN :
         /\ didExport' = (didExport \/ ok)
         /\ IF ok
              THEN /\ loc' = [loc EXCEPT ![p] = Called(@, "ReloadExport", TRUE)]
                   /\ Goto(p, "M_set")
              ELSE /\ loc' = [loc EXCEPT ![p] =
                         Ret([Called(@, "ReloadExport", FALSE) EXCEPT !.err = "other"], Internal)]
                   /\ Goto(p, "ret")
    /\ UNCHANGED <<healthVars, volumeVars, shareExported, osVars, lockVars, op, hist, didMount>>

\* s.manager.SetShareExported(true); return success
M_set(p) ==
    /\ pc[p] = "M_set"
    /\ shareExported' = TRUE
    /\ loc' = [loc EXCEPT ![p] = Ret(Called(@, "SetShareExported", TRUE), OK)]
    /\ Goto(p, "ret")
    /\ UNCHANGED <<healthVars, volumeVars, osVars, lockVars, op, hist, ghostVars>>

Mount(p) ==
    \/ M_nfs(p) \/ M_exported(p) \/ M_isMP(p) \/ M_mount(p)
    \/ M_newExp(p) \/ M_create(p) \/ M_reload(p) \/ M_set(p)

\* --------------------------------------------------------------- Unmount
\* faulty variant: the flag is cleared before the export server is looked for
U_nfsClearsFirst(p) ==
    /\ pc[p] = "U_nfs"
    /\ shareExported' = FALSE
    /\ \E running \in BOOLEAN :
         IF running
           THEN /\ loc' = [loc EXCEPT ![p] = Called(@, "FindProcessByName", TRUE)]
                /\ Goto(p, "U_clear")
           ELSE /\ loc' = [loc EXCEPT ![p] = Ret(Called(@, "FindProcessByName", FALSE), OK)]
                /\ Goto(p, "ret")
    /\ UNCHANGED <<healthVars, volumeVars, osVars, lockVars, op, hist, ghostVars>>

\* nfsServerIsRunning(), as in Mount
U_nfs(p) ==
    /\ pc[p] = "U_nfs"
    /\ \E running \in BOOLEAN :
         IF running
           THEN /\ loc' = [loc EXCEPT ![p] = Called(@, "FindProcessByName", TRUE)]
                /\ Goto(p, "U_clear")
           ELSE /\ loc' = [loc EXCEPT ![p] = Ret(Called(@, "FindProcessByName", FALSE), OK)]
                /\ Goto(p, "ret")
    /\ UNCHANGED <<healthVars, volumeVars, shareExported, osVars, lockVars, op, hist, ghostVars>>

\* faulty variant: the flag is not cleared before unexporting
U_clearSkipped(p) ==
    /\ pc[p] = "U_clear"
    /\ Goto(p, "U_newExp")
    /\ UNCHANGED <<healthVars, volumeVars, shareExported, osVars, lockVars, op, loc, hist, ghostVars>>

\* s.manager.SetShareExported(false), before unexporting and unmounting
U_clear(p) ==
    /\ pc[p] = "U_clear"
    /\ shareExported' = FALSE
    /\ loc' = [loc EXCEPT ![p] = Called(@, "SetShareExported", TRUE)]
    /\ Goto(p, "U_newExp")
    /\ UNCHANGED <<healthVars, volumeVars, osVars, lockVars, op, hist, ghostVars>>

\* s.unexport(vol): nfs.NewExporter
U_newExp(p) ==
    /\ pc[p] = "U_newExp"
    /\ \E ok \in BOOLEAN :
         IF ok
           THEN /\ loc' = [loc EXCEPT ![p] = Called(@, "NewExporter", TRUE)]
                /\ Goto(p, "U_delete")
           ELSE /\ loc' = [loc EXCEPT ![p] =
                      Ret([Called(@, "NewExporter", FALSE) EXCEPT !.err = "other"], Internal)]
                /\ Goto(p, "ret")
    /\ UNCHANGED <<healthVars, volumeVars, shareExported, osVars, lockVars, op, hist, ghostVars>>

\* faulty variant: the error of DeleteExport is dropped
U_deleteErrorDropped(p) ==
    /\ pc[p] = "U_delete"
    /\ \E ok \in BOOLEAN :
         /\ exportEntry' = DeleteExport(exportEntry, ok)
         /\ loc' = [loc EXCEPT ![p] = Called(@, "DeleteExport", ok)]
         /\ Goto(p, "U_reload")
    /\ UNCHANGED <<healthVars, volumeVars, shareExported, mounted, lockVars, op, hist, ghostVars>>

\* s.unexport(vol): exporter.DeleteExport(vol.Name)
U_delete(p) ==
    /\ pc[p] = "U_delete"
    /\ \E ok \in BOOLEAN :
         /\ exportEntry' = DeleteExport(exportEntry, ok)
         /\ IF ok
              THEN /\ loc' = [loc EXCEPT ![p] = Called(@, "DeleteExport", TRUE)]
                   /\ Goto(p, "U_reload")
              ELSE /\ loc' = [loc EXCEPT ![p] =
                         Ret([Called(@, "DeleteExport", FALSE) EXCEPT !.err = "other"], Internal)]
                   /\ Goto(p, "ret")
    /\ UNCHANGED <<healthVars, volumeVars, shareExported, mounted, lockVars, op, hist, ghostVars>>

\* faulty variant: the error of ReloadExport is dropped
U_reloadErrorDropped(p) ==
    /\ pc[p] = "U_reload"
    /\ \E ok \in BOOLEAN :
         /\ loc' = [loc EXCEPT ![p] = Called(@, "ReloadExport", ok)]
         /\ Goto(p, "U_loop")
    /\ UNCHANGED <<healthVars, volumeVars, shareExported, osVars, lockVars, op, hist, ghostVars>>

\* s.unexport(vol): exporter.ReloadExport()
U_reload(p) ==
    /\ pc[p] = "U_reload"
    /\ \E ok \in BOOLEAN :
         IF ok
           THEN /\ loc' = [loc EXCEPT ![p] = Called(@, "ReloadExport", TRUE)]
                /\ Goto(p, "U_loop")
           ELSE /\ loc' = [loc EXCEPT ![p] =
                      Ret([Called(@, "ReloadExport", FALSE) EXCEPT !.err = "other"], Internal)]
                /\ Goto(p, "ret")
    /\ UNCHANGED <<healthVars, volumeVars, shareExported, osVars, lockVars, op, hist, ghostVars>>

\* for i := 0; i < unmountRetryCount; i++
LoopCond(i) == i < unmountRetryCount

\* faulty variant: every error is retried
ShouldRetryAnyError(e) == e # "nil"

\* err != nil && strings.Contains(err.Error(), "target is busy")
ShouldRetry(e) == e = "busy"

\* after the loop: if err != nil { return internal(err) } ; return success
AfterLoop(l) ==
    [Ret(l, IF l.err # "nil" THEN Internal ELSE OK) EXCEPT !.retErrAt = l.errAt]

\* err = s.unmount(vol) gave e: sleep and continue, or break
AfterAttempt(l, e) ==
    LET l1 == [l EXCEPT !.err = e,
                        !.errAt = IF e = "nil" THEN 0 ELSE l.attempts,
                        !.firstNonBusy = IF @ = 0 /\ e # "busy" THEN l.attempts ELSE @]
    IN IF ShouldRetry(e) THEN [l1 EXCEPT !.i = @ + 1] ELSE AfterLoop(l1)

AfterAttemptPc(e) == IF ShouldRetry(e) THEN "U_loop" ELSE "ret"

U_loop(p) ==
    /\ pc[p] = "U_loop"
    /\ IF LoopCond(loc[p].i)
         THEN /\ Goto(p, "U_isMP")
              /\ UNCHANGED loc
         ELSE /\ loc' = [loc EXCEPT ![p] = AfterLoop(@)]
              /\ Goto(p, "ret")
    /\ UNCHANGED <<healthVars, volumeVars, shareExported, osVars, lockVars, op, hist, ghostVars>>

\* s.unmount(vol): mounter.IsMountPoint(mountPath); not a mount point is success.
\* The text of a failed query ("failed to check mount point ...") is never
\* "target is busy", so its class is "other".
U_isMP(p) ==
    /\ pc[p] = "U_isMP"
    /\ LET l0 == [loc[p] EXCEPT !.attempts = @ + 1] IN
       \/ /\ loc' = [loc EXCEPT ![p] = AfterAttempt(Called(l0, "IsMountPoint", FALSE), "other")]
          /\ Goto(p, AfterAttemptPc("other"))
       \/ /\ ~mounted
          /\ loc' = [loc EXCEPT ![p] =
                AfterAttempt([Called(l0, "IsMountPoint", TRUE) EXCEPT !.isMountPoint = FALSE], "nil")]
          /\ Goto(p, AfterAttemptPc("nil"))
       \/ /\ mounted
          /\ loc' = [loc EXCEPT ![p] =
                [Called(l0, "IsMountPoint", TRUE) EXCEPT !.isMountPoint = TRUE]]
          /\ Goto(p, "U_umount")
    /\ UNCHANGED <<healthVars, volumeVars, shareExported, osVars, lockVars, op, hist, ghostVars>>

\* s.unmount(vol): volume.UnmountVolume(mountPath)
U_umount(p) ==
    /\ pc[p] = "U_umount"
    /\ \/ /\ mounted' = UnmountVolume(mounted, TRUE)
          /\ loc' = [loc EXCEPT ![p] = AfterAttempt(Called(@, "UnmountVolume", TRUE), "nil")]
          /\ Goto(p, AfterAttemptPc("nil"))
       \/ \E e \in ErrKinds :
            /\ mounted' = UnmountVolume(mounted, FALSE)
            /\ loc' = [loc EXCEPT ![p] = AfterAttempt(Called(@, "UnmountVolume", FALSE), e)]
            /\ Goto(p, AfterAttemptPc(e))
    /\ UNCHANGED <<healthVars, volumeVars, shareExported, exportEntry, lockVars, op, hist, ghostVars>>

Unmount(p) ==
    \/ U_nfs(p) \/ U_clear(p) \/ U_newExp(p) \/ U_delete(p)
    \/ U_reload(p) \/ U_loop(p) \/ U_isMP(p) \/ U_umount(p)

\* -------------------------------------------------------- FilesystemTrim
\* one adapter call that either fails (status c, handler returns) or succeeds
Step(p, a, next, c) ==
    \E ok \in BOOLEAN :
        IF ok
          THEN /\ loc' = [loc EXCEPT ![p] = Called(@, a, TRUE)]
               /\ Goto(p, next)
          ELSE /\ loc' = [loc EXCEPT ![p] =
                     Ret([Called(@, a, FALSE) EXCEPT !.err = "other"], c)]
               /\ Goto(p, "ret")

frame == <<healthVars, volumeVars, shareExported, osVars, lockVars, op, hist, ghostVars>>

\* if !volume.CheckDeviceValid(devicePath) { return failed-precondition }
T_valid(p) ==
    /\ pc[p] = "T_valid"
    /\ Step(p, "CheckDeviceValid", "T_getMount", FailedPrecondition)
    /\ UNCHANGED frame

\* mnt, err := filesystem.GetMount(mountPath)
T_getMount(p) ==
    /\ pc[p] = "T_getMount"
    /\ \/ \E d \in Devs :
            /\ loc' = [loc EXCEPT ![p] = [Called(@, "GetMount", TRUE) EXCEPT !.mntDev = d]]
            /\ Goto(p, "T_devNum")
       \/ /\ loc' = [loc EXCEPT ![p] =
                Ret([Called(@, "GetMount", FALSE) EXCEPT !.err = "other"], Internal)]
          /\ Goto(p, "ret")
    /\ UNCHANGED frame

\* faulty variant: the device numbers are not compared
DeviceMismatchIgnored(m, d) == FALSE

\* uint64(mnt.DeviceNumber) != uint64(deviceNumber)
DeviceMismatch(m, d) == m # d

\* deviceNumber, err := util.GetDeviceNumber(devicePath), then the comparison
T_devNum(p) ==
    /\ pc[p] = "T_devNum"
    /\ \/ \E d \in Devs :
            IF DeviceMismatch(loc[p].mntDev, d)
              THEN /\ loc' = [loc EXCEPT ![p] =
                         Ret([Called(@, "GetDeviceNumber", TRUE) EXCEPT !.devNum = d],
                             InvalidArgument)]
                   /\ Goto(p, "ret")
              ELSE /\ loc' = [loc EXCEPT ![p] =
                         [Called(@, "GetDeviceNumber", TRUE) EXCEPT !.devNum = d]]
                   /\ Goto(p, "T_isMP")
       \/ /\ loc' = [loc EXCEPT ![p] =
                Ret([Called(@, "GetDeviceNumber", FALSE) EXCEPT !.err = "other"], Internal)]
          /\ Goto(p, "ret")
    /\ UNCHANGED frame

\* isMountPoint, err := mounter.IsMountPoint(mountPath)
\* if !isMountPoint { return invalid-argument } ; if err != nil { return internal }
TrimMountPointStatus(isMP, e) ==
    IF ~isMP THEN InvalidArgument
    ELSE IF e # "nil" THEN Internal
    ELSE OK

T_isMP(p) ==
    /\ pc[p] = "T_isMP"
    /\ \/ /\ loc' = [loc EXCEPT ![p] =
                LET l1 == [Called(@, "IsMountPoint", TRUE) EXCEPT !.isMountPoint = mounted]
                IN IF TrimMountPointStatus(mounted, "nil") = OK
                     THEN l1 ELSE Ret(l1, TrimMountPointStatus(mounted, "nil"))]
          /\ Goto(p, IF TrimMountPointStatus(mounted, "nil") = OK THEN "T_readDir" ELSE "ret")
       \/ \E b \in BOOLEAN :    \* the value returned along with an error
            /\ loc' = [loc EXCEPT ![p] =
                  Ret([Called(@, "IsMountPoint", FALSE) EXCEPT !.isMountPoint = b,
                                                                !.err = "other"],
                      TrimMountPointStatus(b, "other"))]
            /\ Goto(p, "ret")
    /\ UNCHANGED frame

\* os.ReadDir(mountPath)
T_readDir(p) ==
    /\ pc[p] = "T_readDir"
    /\ Step(p, "ReadDir", "T_fstrim", Internal)
    /\ UNCHANGED frame

\* execute(fstrim mountPath)
T_fstrim(p) ==
    /\ pc[p] = "T_fstrim"
    /\ \/ /\ loc' = [loc EXCEPT ![p] = Ret(Called(@, "fstrim", TRUE), OK)]
          /\ Goto(p, "ret")
       \/ /\ loc' = [loc EXCEPT ![p] =
                Ret([Called(@, "fstrim", FALSE) EXCEPT !.err = "other"], Internal)]
          /\ Goto(p, "ret")
    /\ UNCHANGED frame

FilesystemTrim(p) ==
    \/ T_valid(p) \/ T_getMount(p) \/ T_devNum(p)
    \/ T_isMP(p) \/ T_readDir(p) \/ T_fstrim(p)

\* ------------------------------------------------------ FilesystemResize
R_valid(p) ==
    /\ pc[p] = "R_valid"
    /\ Step(p, "CheckDeviceValid", "R_getMount", FailedPrecondition)
    /\ UNCHANGED frame

\* _, err = filesystem.GetMount(mountPath) ; if vol.IsEncrypted() { ... }
R_getMount(p) ==
    /\ pc[p] = "R_getMount"
    /\ Step(p, "GetMount", IF isEncrypted THEN "R_format" ELSE "R_resize", Internal)
    /\ UNCHANGED frame

DiskFormats == {"crypto_LUKS", "ext4"}

\* faulty variant: the detected format is not checked
UnsupportedFormatIgnored(f) == FALSE

\* if diskFormat != "crypto_LUKS" { return invalid-argument }
UnsupportedFormat(f) == f # "crypto_LUKS"

\* diskFormat, err := volume.GetDiskFormat(rawDevicePath)
R_format(p) ==
    /\ pc[p] = "R_format"
    /\ \/ \E f \in DiskFormats :
            IF UnsupportedFormat(f)
              THEN /\ loc' = [loc EXCEPT ![p] =
                         Ret([Called(@, "GetDiskFormat", TRUE) EXCEPT !.diskFormat = f],
                             InvalidArgument)]
                   /\ Goto(p, "ret")
              ELSE /\ loc' = [loc EXCEPT ![p] =
                         [Called(@, "GetDiskFormat", TRUE) EXCEPT !.diskFormat = f]]
                   /\ Goto(p, "R_crypt")
       \/ /\ loc' = [loc EXCEPT ![p] =
                Ret([Called(@, "GetDiskFormat", FALSE) EXCEPT !.err = "other"], Internal)]
          /\ Goto(p, "ret")
    /\ UNCHANGED frame

\* crypto.ResizeEncryptoDevice(vol.Name, vol.DataEngine, vol.Passphrase)
R_crypt(p) ==
    /\ pc[p] = "R_crypt"
    /\ Step(p, "ResizeEncryptoDevice", "R_resize", Internal)
    /\ UNCHANGED frame

\* faulty variant: a resize marks the share as not exported
R_resizeClearsFlag(p) ==
    /\ pc[p] = "R_resize"
    /\ shareExported' = FALSE
    /\ \/ /\ loc' = [loc EXCEPT ![p] = Ret(Called(@, "ResizeVolume", TRUE), OK)]
          /\ Goto(p, "ret")
       \/ /\ loc' = [loc EXCEPT ![p] =
                Ret([Called(@, "ResizeVolume", FALSE) EXCEPT !.err = "other"], Internal)]
          /\ Goto(p, "ret")
    /\ UNCHANGED <<healthVars, volumeVars, osVars, lockVars, op, hist, ghostVars>>

\* resized, err := volume.ResizeVolume(devicePath, mountPath)
R_resize(p) ==
    /\ pc[p] = "R_resize"
    /\ \/ /\ loc' = [loc EXCEPT ![p] = Ret(Called(@, "ResizeVolume", TRUE), OK)]
          /\ Goto(p, "ret")
       \/ /\ loc' = [loc EXCEPT ![p] =
                Ret([Called(@, "ResizeVolume", FALSE) EXCEPT !.err = "other"], Internal)]
          /\ Goto(p, "ret")
    /\ UNCHANGED frame

FilesystemResize(p) ==
    \/ R_valid(p) \/ R_getMount(p) \/ R_format(p) \/ R_crypt(p) \/ R_resize(p)

\* ------------------------------------------------------------------ Spec
\* concurrent callers
Next ==
    \E p \in Procs :
        \/ Call(p) \/ Lock(p) \/ GetVolume(p) \/ Return(p)
        \/ Mount(p) \/ Unmount(p) \/ FilesystemTrim(p) \/ FilesystemResize(p)

Spec == Init /\ [][Next]_vars

\* every adapter call returns, so a handler that can step does step; the
\* RWMutex hands the lock to a caller that keeps waiting for it
HandlerStep(p) ==
    \/ GetVolume(p) \/ Return(p)
    \/ Mount(p) \/ Unmount(p) \/ FilesystemTrim(p) \/ FilesystemResize(p)

Fairness == \A p \in Procs : WF_vars(HandlerStep(p)) /\ SF_vars(Lock(p))

FairSpec == Init /\ [][Next]_vars /\ Fairness

\* one caller issuing calls back to back, with the log of completed calls
SeqProcs == {1}

NextSeq ==
    \E p \in SeqProcs :
        \/ Call(p) \/ Lock(p) \/ GetVolume(p) \/ ReturnLogged(p)
        \/ Mount(p) \/ Unmount(p) \/ FilesystemTrim(p) \/ FilesystemResize(p)

SeqSpec == Init /\ [][NextSeq]_vars

\* --------------------------------------------------------- health server
SERVING == "SERVING"
NOT_SERVING == "NOT_SERVING"

controllerVars == <<volumeVars, shareExported, osVars, lockVars, pc, op, loc, hist, ghostVars>>

\* Check: serving if s.srv != nil, else not serving and an error
Check ==
    /\ health' = IF srv THEN [rpc |-> "Check", status |-> SERVING, err |-> FALSE]
                 ELSE [rpc |-> "Check", status |-> NOT_SERVING, err |-> TRUE]
    /\ UNCHANGED <<srv, controllerVars>>

\* Watch: one round of the loop sends the current status (a failed send is logged)
Watch ==
    /\ health' = [rpc |-> "Watch", status |-> IF srv THEN SERVING ELSE NOT_SERVING,
                  err |-> FALSE]
    /\ UNCHANGED <<srv, controllerVars>>

\* List: {"grpc": SERVING}, nil
List ==
    /\ health' = [rpc |-> "List", status |-> SERVING, err |-> FALSE]
    /\ UNCHANGED <<srv, controllerVars>>

\* a caller of the controller
ControllerStep ==
    \E p \in SeqProcs :
        \/ Call(p) \/ Lock(p) \/ GetVolume(p) \/ Return(p)
        \/ Mount(p) \/ Unmount(p) \/ FilesystemTrim(p) \/ FilesystemResize(p)

\* the health server answers beside it, without the controller's lock
HealthNext == ControllerStep \/ Check \/ Watch \/ List

HealthSpec == HealthInit /\ [][HealthNext]_vars

\* callers in a handler between s.Lock() and the deferred s.Unlock()
InHandler(p) == pc[p] \notin {"idle", "Lock"}

\* the call of p found the export server running
NfsUp(p) == "FindProcessByName" \in loc[p].calls \ loc[p].failed

\* the call of p found no export server
NfsDown(p) == "FindProcessByName" \in loc[p].failed

\* p's handler has computed its status and is about to return
AtReturn(p, o) == pc[p] = "ret" /\ op[p] = o

Bound == volName # ""

MountExportCalls == {"IsMountPoint", "MountVolume", "NewExporter", "CreateExport", "ReloadExport"}
UnexportUnmountCalls == {"NewExporter", "DeleteExport", "ReloadExport", "IsMountPoint", "UnmountVolume"}

\* a completed call that found the export server running, had no adapter
\* fail and returned success
Good(r, o) == r.op = o /\ r.code = OK /\ r.nfsUp /\ r.clean

\* ================================================================ claims

\* C1: at most one caller is between lock acquisition and return, and while
\* a caller stays inside its handler no other caller takes a step other than
\* arriving at the lock: its position, its locals and the flag are untouched
\* by anyone else.
C1_MutualExclusion ==
    /\ [](\A p, q \in Procs : (p # q /\ InHandler(p)) => ~InHandler(q))
    /\ [][\A p, q \in Procs :
            (p # q /\ InHandler(p) /\ InHandler(p)') =>
                /\ loc'[q] = loc[q]
                /\ pc'[q] = pc[q] \/ (pc[q] = "idle" /\ pc'[q] = "Lock")]_vars

\* a caller is inside a retried unmount while a Mount call waits for the lock
C1_Witness ==
    \E p, q \in Procs :
        /\ p # q
        /\ pc[p] = "U_umount" /\ loc[p].i > 0
        /\ pc[q] = "Lock" /\ op[q] = "Mount"

\* C2: with an unbound volume every handler returns success straight after
\* the name check: no adapter call, no access to the flag, flag unchanged.
C2_UnboundNoOp ==
    \A p \in Procs :
        (InHandler(p) /\ ~Bound) =>
            /\ pc[p] \in {"GetVolume", "ret"}
            /\ loc[p].calls = {}
            /\ shareExported = loc[p].entry[1]
            /\ pc[p] = "ret" => loc[p].code = OK

C2_Witness == \E p \in Procs : AtReturn(p, "Unmount") /\ ~Bound /\ loc[p].code = OK

\* C3: a Mount call that finds the export server running, right after a
\* Mount call that found it running and had no adapter fail: both return
\* success, the flag is true after each, and the second makes no mount-point
\* query, mount, export-create or export-reload call.
C3_MountIdempotent ==
    \A p \in SeqProcs :
        (AtReturn(p, "Mount") /\ Bound /\ NfsUp(p) /\ prev.op = "Mount"
           /\ prev.nfsUp /\ prev.clean) =>
            /\ prev.code = OK
            /\ loc[p].entry[1] = TRUE
            /\ loc[p].code = OK
            /\ shareExported
            /\ loc[p].calls \cap MountExportCalls = {}

C3_Witness ==
    \E p \in SeqProcs :
        /\ AtReturn(p, "Mount") /\ Bound /\ NfsUp(p)
        /\ Good(prev, "Mount")
        /\ loc[p].code = OK /\ shareExported

\* C4: once an Unmount call has found the export server running, the flag is
\* false before any unexport or unmount adapter call and is false at return;
\* a failing export-delete or export-reload makes the call return internal.
C4_UnmountClearsFirst ==
    \A p \in Procs :
        (op[p] = "Unmount" /\ Bound /\ NfsUp(p)) =>
            /\ loc[p].calls \cap UnexportUnmountCalls # {} =>
                   (~shareExported /\ "SetShareExported" \in loc[p].calls)
            /\ pc[p] = "ret" => ~shareExported
            /\ (pc[p] = "ret" /\ loc[p].failed \cap {"DeleteExport", "ReloadExport"} # {}) =>
                   loc[p].code = Internal

\* the flag was true at entry and export-delete failed
C4_Witness ==
    \E p \in Procs :
        /\ AtReturn(p, "Unmount") /\ NfsUp(p)
        /\ loc[p].entry[1] = TRUE
        /\ "DeleteExport" \in loc[p].failed
        /\ ~shareExported /\ loc[p].code = Internal

\* C5 as claimed: the flag is true only if some call of this instance had a
\* successful mount adapter call and a successful export.
C5_Original == shareExported => (didMount /\ didExport)

\* C5 amended: the flag is true only after a successful export of this
\* instance, and it is set only by a Mount call in which no adapter failed,
\* which created and reloaded the export, and which either mounted the path
\* itself or found it to be a mount point already.
C5_FlagSetAfterMountAndExport ==
    /\ [](shareExported => didExport)
    /\ [][(~shareExported /\ shareExported') =>
            \E p \in Procs :
                /\ op[p] = "Mount" /\ pc[p] = "M_set"
                /\ loc[p].failed = {}
                /\ {"IsMountPoint", "CreateExport", "ReloadExport"} \subseteq loc[p].calls
                /\ "MountVolume" \in loc[p].calls \/ loc[p].isMountPoint]_vars

\* the flag was set by a call that found the path mounted and did not mount
C5_Witness ==
    /\ shareExported /\ ~didMount
    /\ \E p \in Procs : AtReturn(p, "Mount") /\ "SetShareExported" \in loc[p].calls

\* C6: a Mount call on a bound volume that found the export server running
\* and the flag false: if a step fails it returns internal with the flag
\* still false; if no step fails it returns success with the flag true.
C6_MountOutcome ==
    \A p \in Procs :
        (AtReturn(p, "Mount") /\ Bound /\ NfsUp(p) /\ loc[p].entry[1] = FALSE) =>
            /\ loc[p].failed # {} => (loc[p].code = Internal /\ ~shareExported)
            /\ loc[p].failed = {} => (loc[p].code = OK /\ shareExported)

\* the mount succeeded and the export reload failed
C6_Witness ==
    \E p \in Procs :
        /\ AtReturn(p, "Mount") /\ NfsUp(p)
        /\ "MountVolume" \in loc[p].calls
        /\ "ReloadExport" \in loc[p].failed
        /\ loc[p].code = Internal /\ ~shareExported

\* C7: Mount, Unmount, Mount, each finding the export server running and no
\* adapter failing: the last Mount ends with the flag true, the path mounted
\* and the export entry present, and it did mount, create and reload itself.
C7_RoundTrip ==
    \A p \in SeqProcs :
        (AtReturn(p, "Mount") /\ Bound /\ NfsUp(p) /\ loc[p].failed = {}
           /\ Good(prev, "Unmount") /\ Good(prev2, "Mount")) =>
            /\ loc[p].code = OK
            /\ shareExported /\ mounted /\ exportEntry
            /\ {"ShareIsExported", "MountVolume", "CreateExport", "ReloadExport",
                "SetShareExported"} \subseteq loc[p].calls

C7_Witness ==
    \E p \in SeqProcs :
        /\ AtReturn(p, "Mount") /\ NfsUp(p) /\ loc[p].failed = {}
        /\ Good(prev, "Unmount") /\ Good(prev2, "Mount")
        /\ shareExported /\ mounted /\ exportEntry

\* C8: the unmount loop makes at most unmountRetryCount attempts (calls of
\* s.unmount: the mount-point query and, on a mount point, the OS unmount);
\* it stops at the first attempt whose result is not "busy" (success, or
\* that error returned as internal); if every attempt is busy, which only
\* the OS unmount of a mount point can be, it makes exactly
\* unmountRetryCount attempts and returns the last one's error as internal.
C8_RetryBound ==
    \A p \in Procs :
        LET l == loc[p] IN
        (op[p] = "Unmount") =>
            /\ l.attempts <= unmountRetryCount
            /\ l.firstNonBusy # 0 => (pc[p] = "ret" /\ l.attempts = l.firstNonBusy)
            /\ (pc[p] = "ret" /\ l.attempts > 0 /\ l.firstNonBusy = 0) =>
                   /\ l.attempts = unmountRetryCount
                   /\ l.err = "busy" /\ l.code = Internal
                   /\ l.retErrAt = unmountRetryCount
            /\ (pc[p] = "ret" /\ l.firstNonBusy # 0) =>
                   /\ l.err = "nil" => l.code = OK
                   /\ l.err # "nil" => (l.code = Internal /\ l.retErrAt = l.attempts)

\* every attempt was busy and the retries are exhausted
C8_Witness ==
    \E p \in Procs :
        /\ AtReturn(p, "Unmount")
        /\ loc[p].attempts = unmountRetryCount
        /\ loc[p].err = "busy" /\ loc[p].code = Internal

\* C9 as claimed: every successful Unmount on a bound volume ends with the
\* path not mounted, no export entry and the flag false.
C9_Original ==
    \A p \in Procs :
        (AtReturn(p, "Unmount") /\ Bound /\ loc[p].code = OK) =>
            (~mounted /\ ~exportEntry /\ ~shareExported)

\* C9 amended: every successful Unmount on a bound volume that found the
\* export server running ends with the path not mounted, no export entry
\* and the flag false.
C9_UnmountFinalState ==
    \A p \in Procs :
        (AtReturn(p, "Unmount") /\ Bound /\ NfsUp(p) /\ loc[p].code = OK) =>
            (~mounted /\ ~exportEntry /\ ~shareExported)

\* a mounted, exported, flagged volume was unexported and unmounted
C9_Witness ==
    \E p \in Procs :
        /\ AtReturn(p, "Unmount") /\ NfsUp(p) /\ loc[p].code = OK
        /\ loc[p].entry = <<TRUE, TRUE, TRUE>>
        /\ "UnmountVolume" \in loc[p].calls

\* C10: Mount and Unmount on a bound volume that find no export server
\* return success having called nothing else, with the flag, the mount and
\* the export entry as they were at entry.
C10_NoServerNoOp ==
    \A p \in Procs :
        ((AtReturn(p, "Mount") \/ AtReturn(p, "Unmount")) /\ Bound /\ NfsDown(p)) =>
            /\ loc[p].code = OK
            /\ loc[p].calls = {"FindProcessByName"}
            /\ <<shareExported, mounted, exportEntry>> = loc[p].entry

C10_Witness ==
    \E p \in Procs :
        /\ AtReturn(p, "Unmount") /\ Bound /\ NfsDown(p)
        /\ loc[p].entry = <<TRUE, TRUE, TRUE>>

\* C11: a trim whose device is valid and whose mount record and device
\* number both resolve, to different device numbers, returns invalid-argument
\* at once: no mount-point query, no directory read, no trim utility.
C11_TrimDeviceMismatch ==
    \A p \in Procs :
        (op[p] = "FilesystemTrim" /\ Bound
           /\ {"CheckDeviceValid", "GetMount", "GetDeviceNumber"} \subseteq loc[p].calls \ loc[p].failed
           /\ loc[p].mntDev # loc[p].devNum) =>
            /\ pc[p] = "ret"
            /\ loc[p].code = InvalidArgument
            /\ loc[p].calls \cap {"IsMountPoint", "ReadDir", "fstrim"} = {}

C11_Witness ==
    \E p \in Procs :
        /\ AtReturn(p, "FilesystemTrim")
        /\ "GetDeviceNumber" \in loc[p].calls \ loc[p].failed
        /\ loc[p].mntDev # loc[p].devNum
        /\ loc[p].code = InvalidArgument

\* C12: a resize of an encrypted volume whose raw device format is detected
\* as anything but crypto_LUKS returns invalid-argument; and a resize of an
\* encrypted volume calls the encryption resize or the filesystem resize on
\* no path other than after detecting crypto_LUKS.
C12_ResizeFormatMismatch ==
    \A p \in Procs :
        (op[p] = "FilesystemResize" /\ Bound /\ isEncrypted) =>
            /\ ("GetDiskFormat" \in loc[p].calls \ loc[p].failed
                  /\ loc[p].diskFormat # "crypto_LUKS") =>
                   (pc[p] = "ret" /\ loc[p].code = InvalidArgument)
            /\ loc[p].calls \cap {"ResizeEncryptoDevice", "ResizeVolume"} # {} =>
                   ("GetDiskFormat" \in loc[p].calls \ loc[p].failed
                      /\ loc[p].diskFormat = "crypto_LUKS")

C12_Witness ==
    \E p \in Procs :
        /\ AtReturn(p, "FilesystemResize") /\ isEncrypted
        /\ {"CheckDeviceValid", "GetMount", "GetDiskFormat"} \subseteq loc[p].calls \ loc[p].failed
        /\ loc[p].diskFormat = "ext4"
        /\ loc[p].code = InvalidArgument

\* C13: Check and List answer serving when srv is not nil, and not serving
\* with an error when srv is nil.
C13_HealthStatus ==
    health.rpc \in {"Check", "List"} =>
        /\ srv => (health.status = SERVING /\ ~health.err)
        /\ ~srv => (health.status = NOT_SERVING /\ health.err)

\* C14 as claimed: every failing return of Mount, Unmount and
\* FilesystemResize carries internal.
C14_Original ==
    \A p \in Procs :
        (pc[p] = "ret" /\ op[p] \in {"Mount", "Unmount", "FilesystemResize"}) =>
            loc[p].code \in {OK, Internal}

\* C14 amended: every failing return of Mount and of Unmount carries
\* internal; FilesystemResize also returns failed-precondition, for an
\* invalid device, and invalid-argument, for an encrypted volume of another
\* format; FilesystemTrim returns those three codes.
C14_FailureCodes ==
    \A p \in Procs :
        pc[p] = "ret" =>
            /\ op[p] \in {"Mount", "Unmount"} => loc[p].code \in {OK, Internal}
            /\ op[p] \in {"FilesystemResize", "FilesystemTrim"} =>
                   loc[p].code \in {OK, Internal, FailedPrecondition, InvalidArgument}
            /\ op[p] = "FilesystemResize" =>
                   /\ loc[p].code = FailedPrecondition =>
                          "CheckDeviceValid" \in loc[p].failed
                   /\ loc[p].code = InvalidArgument =>
                          (isEncrypted /\ loc[p].diskFormat \notin {"", "crypto_LUKS"})

\* a resize refused for an invalid device
C14_Witness ==
    \E p \in Procs :
        AtReturn(p, "FilesystemResize") /\ loc[p].code = FailedPrecondition

\* the adapters that report an error value
ErrorAdapters ==
    {"IsMountPoint", "GetMount", "GetDeviceNumber", "ReadDir", "fstrim",
     "GetDiskFormat", "ResizeEncryptoDevice", "ResizeVolume", "MountVolume",
     "UnmountVolume", "NewExporter", "CreateExport", "DeleteExport", "ReloadExport"}

\* C15: a handler that returns with the error of an adapter call returns
\* internal, and a status other than internal never comes with an adapter
\* error; so a failing mount-point query in FilesystemTrim is internal.
C15_ErrorPropagation ==
    \A p \in Procs :
        (pc[p] = "ret" /\ loc[p].err # "nil" /\ loc[p].failed \cap ErrorAdapters # {}) =>
            loc[p].code = Internal

\* C16: in Unmount the export entry is deleted and the server reloaded
\* before any mount-point query or OS unmount; if building the exporter,
\* the delete or the reload fails, the call returns internal without either
\* and the mount is as it was at entry.
C16_UnexportBeforeUnmount ==
    \A p \in Procs :
        (op[p] = "Unmount" /\ Bound) =>
            /\ loc[p].calls \cap {"IsMountPoint", "UnmountVolume"} # {} =>
                   {"DeleteExport", "ReloadExport"} \subseteq loc[p].calls \ loc[p].failed
            /\ loc[p].failed \cap {"NewExporter", "DeleteExport", "ReloadExport"} # {} =>
                   /\ pc[p] = "ret"
                   /\ loc[p].code = Internal
                   /\ loc[p].calls \cap {"IsMountPoint", "UnmountVolume"} = {}
                   /\ mounted = loc[p].entry[2]

\* the reload failed over a mounted path
C16_Witness ==
    \E p \in Procs :
        /\ AtReturn(p, "Unmount")
        /\ "DeleteExport" \in loc[p].calls \ loc[p].failed
        /\ "ReloadExport" \in loc[p].failed
        /\ loc[p].entry[2] = TRUE /\ mounted

C18_FlagFrame ==
    /\ [](\A p \in Procs :
            (InHandler(p) /\ op[p] \in {"FilesystemTrim", "FilesystemResize"}) =>
                /\ loc[p].calls \cap {"ShareIsExported", "SetShareExported"} = {}
                /\ shareExported = loc[p].entry[1])
    /\ [][shareExported' # shareExported =>
            \E p \in Procs :
                \/ /\ op[p] = "Mount" /\ pc[p] = "M_set" /\ pc'[p] = "ret"
                   /\ shareExported'
                   /\ loc[p].failed = {}
                   /\ {"CreateExport", "ReloadExport"} \subseteq loc[p].calls
                \/ /\ op[p] = "Unmount" /\ pc[p] = "U_clear" /\ pc'[p] # pc[p]
                   /\ ~shareExported']_vars

\* a resize returns over an exported share after the health server answered
C18_Witness ==
    \E p \in Procs :
        /\ AtReturn(p, "FilesystemResize") /\ Bound
        /\ "ResizeVolume" \in loc[p].calls
        /\ shareExported /\ loc[p].entry[1] = TRUE
        /\ health.rpc = "Check"

\* C19: with adapter calls returning and fair lock acquisition, every caller
\* waiting for the lock enters its handler, every handler returns, and a
\* caller that has returned holds no lock.
C19_TerminationAndRelease ==
    \A p \in Procs :
        /\ [](pc[p] \in {"idle", "Lock"} => p \notin (writers \cup readers))
        /\ (pc[p] = "Lock") ~> InHandler(p)
        /\ InHandler(p) ~> (pc[p] = "idle")

\* a caller waits while another returns from an exhausted unmount
C19_Witness ==
    \E p, q \in Procs :
        /\ AtReturn(p, "Unmount")
        /\ loc[p].attempts = unmountRetryCount /\ loc[p].code = Internal
        /\ p \in writers
        /\ pc[q] = "Lock"

\* C20: in every state the flag being true implies that the path is a mount
\* point and the export entry exists.
C20_FlagSound == shareExported => (mounted /\ exportEntry)

\* the flag is true in the middle of an Unmount, another caller waiting
C20_Witness ==
    /\ shareExported /\ mounted /\ exportEntry
    /\ \E p, q \in Procs : pc[p] = "U_clear" /\ pc[q] = "Lock"

====
